---- MODULE Spec2Model ----
(***************************************************************************)
(* Model of the boids simulation kernel (src/src/kernel.cu): the global    *)
(* device buffers, Boids::initSimulation and the three step functions,     *)
(* one action per kernel launch / bulk copy of a step.                     *)
(*                                                                         *)
(* Numbers.  A float is modelled as a fixed-point integer counting         *)
(* hundredths (Unit = 100 stands for 1.0f); a product or quotient of two   *)
(* floats is rounded toward zero.  A glm::vec3 is a triple <<x, y, z>>.    *)
(* Distance tests compare squared lengths, which is exact.                 *)
(* A device array of length n is a function on 0 .. n-1.                   *)
(***************************************************************************)
EXTENDS Integers, Sequences, FiniteSets, TLC

(***************************************************************************)
(* Bounds of the exploration.                                              *)
(***************************************************************************)
MaxN == 2

MaxSteps == 2

\* calls of initSimulation in one run of the lifecycle specification
MaxInits == 2

(***************************************************************************)
(* Configuration (kernel.cu, "Configuration" block).                       *)
(***************************************************************************)
Unit == 100

blockSize == 128

rule1Distance == 5 * Unit

rule2Distance == 3 * Unit

rule3Distance == 5 * Unit

rule1Scale == 1

rule2Scale == 10

rule3Scale == 10

maxSpeed == 1 * Unit

scene_scale == 100 * Unit

(***************************************************************************)
(* Inputs of the exploration: positions the generator may produce (all     *)
(* inside the scene), the contents uninitialised device memory may have,   *)
(* and the frame times of the driver loop.                                 *)
(***************************************************************************)
PosSet == { <<0, 0, 0>>, <<-200, 0, 0>>, <<10000, -10000, 0>> }

VelSet == { <<30, -40, 0>>, <<200, -200, 100>> }

GarbageSet == { <<-1, -1>>, <<0, 1>> }

DtSet == { 20 }

(***************************************************************************)
(* Float and vector arithmetic.                                            *)
(***************************************************************************)
Abs(a) == IF a < 0 THEN -a ELSE a

TruncDiv(a, b) == IF a >= 0 THEN a \div b ELSE -((-a) \div b)

FMul(a, b) == TruncDiv(a * b, Unit)

imax(a, b) == IF a > b THEN a ELSE b

imin(a, b) == IF a < b THEN a ELSE b

Zero3 == <<0, 0, 0>>

VAdd(a, b) == <<a[1] + b[1], a[2] + b[2], a[3] + b[3]>>

VSub(a, b) == <<a[1] - b[1], a[2] - b[2], a[3] - b[3]>>

VDivInt(a, n) == <<TruncDiv(a[1], n), TruncDiv(a[2], n), TruncDiv(a[3], n)>>

VMulF(a, f) == <<FMul(a[1], f), FMul(a[2], f), FMul(a[3], f)>>

Dot(a, b) == a[1] * b[1] + a[2] * b[2] + a[3] * b[3]

RECURSIVE IsqrtBetween(_, _, _)
IsqrtBetween(n, lo, hi) ==
  IF lo >= hi THEN lo
  ELSE LET mid == (lo + hi + 1) \div 2
       IN IF mid * mid <= n THEN IsqrtBetween(n, mid, hi)
          ELSE IsqrtBetween(n, lo, mid - 1)

Isqrt(n) == IsqrtBetween(n, 0, 46340)

Length(a) == Isqrt(Dot(a, a))

\* glm::length(v) > s, decided on the squares
LongerThan(a, s) == Dot(a, a) > s * s

\* glm::distance(a, b) < d, decided on the squares
CloserThan(a, b, d) == Dot(VSub(a, b), VSub(a, b)) < d * d

\* glm::normalize(v) * s
NormalizeTimes(a, s) == VDivInt(<<a[1] * s, a[2] * s, a[3] * s>>, Length(a))

Range(f) == { f[k] : k \in DOMAIN f }

Slots(n) == 0 .. (n - 1)

(***************************************************************************)
(* Kernel state.  The arrays are the device buffers of kernel.cu; pc is    *)
(* the position of the host code (between calls, or after which launch of  *)
(* the running step function); mode and dt are the running step function   *)
(* and its argument.                                                       *)
(* History variables, read by properties only: pos0/vel0 are the position  *)
(* and velocity arrays at the start of the running step, slot0 maps a      *)
(* slot of the arrays to the slot the same boid had at the start of the    *)
(* step, posPrev is the position array before the last kernUpdatePos, and  *)
(* contrib[i] lists the boids that reached the three rules in the last     *)
(* velocity kernel of thread i.                                            *)
(***************************************************************************)
VARIABLES pc, mode, dt, steps, numObjects,
          dev_pos, dev_vel1, dev_vel2,
          dev_particleArrayIndices, dev_particleGridIndices,
          dev_gridCellStartIndices, dev_gridCellEndIndices,
          dev_shuffledPos, dev_shuffledVel1,
          gridCellCount, gridSideCount, gridCellWidth, gridMinimum,
          pos0, vel0, slot0, posPrev, contrib

gridVars == <<gridCellCount, gridSideCount, gridCellWidth, gridMinimum>>

tableVars == <<dev_gridCellStartIndices, dev_gridCellEndIndices>>

indexVars == <<dev_particleArrayIndices, dev_particleGridIndices>>

shuffleVars == <<dev_shuffledPos, dev_shuffledVel1>>

histVars == <<pos0, vel0, slot0, posPrev, contrib>>

vars == <<pc, mode, dt, steps, numObjects, dev_pos, dev_vel1, dev_vel2,
          indexVars, tableVars, shuffleVars, gridVars, histVars>>

\* a slot of device memory that no kernel has written and none reads
Unwritten == "unwritten"

\* (N + blockSize - 1) / blockSize
BlocksFor(N) == (N + blockSize - 1) \div blockSize

(***************************************************************************)
(* The three rules (loop body and final combination shared by             *)
(* computeVelocityChange and the two grid kernels).                        *)
(***************************************************************************)
RuleAcc0 == [center |-> Zero3, n1 |-> 0, dodge |-> Zero3, coh |-> Zero3, n3 |-> 0]

\* variant of RuleBody whose rule 3 has no distance test
RuleBody_Rule3Everywhere(acc, selfPos, onPos, onVel) ==
  LET a1 == IF CloserThan(selfPos, onPos, rule1Distance)
            THEN [acc EXCEPT !.center = VAdd(acc.center, onPos), !.n1 = acc.n1 + 1]
            ELSE acc
      a2 == IF CloserThan(selfPos, onPos, rule2Distance)
            THEN [a1 EXCEPT !.dodge = VAdd(a1.dodge, VSub(selfPos, onPos))]
            ELSE a1
  IN [a2 EXCEPT !.coh = VAdd(a2.coh, onVel), !.n3 = a2.n3 + 1]

RuleBody(acc, selfPos, onPos, onVel) ==
  LET a1 == IF CloserThan(selfPos, onPos, rule1Distance)
            THEN [acc EXCEPT !.center = VAdd(acc.center, onPos), !.n1 = acc.n1 + 1]
            ELSE acc
      a2 == IF CloserThan(selfPos, onPos, rule2Distance)
            THEN [a1 EXCEPT !.dodge = VAdd(a1.dodge, VSub(selfPos, onPos))]
            ELSE a1
  IN IF CloserThan(selfPos, onPos, rule3Distance)
     THEN [a2 EXCEPT !.coh = VAdd(a2.coh, onVel), !.n3 = a2.n3 + 1]
     ELSE a2

RECURSIVE RuleLoop(_, _, _, _, _, _)
RuleLoop(cands, k, acc, selfPos, pos, vel) ==
  IF k > Len(cands) THEN acc
  ELSE RuleLoop(cands, k + 1,
                RuleBody(acc, selfPos, pos[cands[k]], vel[cands[k]]),
                selfPos, pos, vel)

RuleFinal(acc, selfPos) ==
  LET adhesion == IF acc.n1 > 0
                  THEN VMulF(VSub(VDivInt(acc.center, acc.n1), selfPos), rule1Scale)
                  ELSE Zero3
      dodging  == VMulF(acc.dodge, rule2Scale)
      cohesion == IF acc.n3 > 0
                  THEN VMulF(VDivInt(acc.coh, acc.n3), rule3Scale)
                  ELSE Zero3
  IN VAdd(VAdd(adhesion, dodging), cohesion)

\* the velocity change of a boid at selfPos caused by the boids listed in cands
RuleChange(cands, selfPos, pos, vel) ==
  RuleFinal(RuleLoop(cands, 1, RuleAcc0, selfPos, pos, vel), selfPos)

\* variant of ClampSpeed whose test compares one component instead of the length
ClampSpeed_ComponentTest(v) ==
  IF v[1] > maxSpeed THEN NormalizeTimes(v, maxSpeed) ELSE v

\* glm::length(v) > maxSpeed ? glm::normalize(v) * maxSpeed : v
ClampSpeed(v) ==
  IF LongerThan(v, maxSpeed) THEN NormalizeTimes(v, maxSpeed) ELSE v

(***************************************************************************)
(* Brute force.                                                            *)
(***************************************************************************)
\* the on_index values of computeVelocityChange's loop that pass the self test
BruteForceCandidates(N, iSelf) ==
  SelectSeq([k \in 1 .. N |-> k - 1], LAMBDA on_index : on_index # iSelf)

computeVelocityChange(N, iSelf, pos, vel) ==
  RuleChange(BruteForceCandidates(N, iSelf), pos[iSelf], pos, vel)

\* the value kernUpdateVelocityBruteForce stores in vel2[index]
BruteForceVelocity(N, index, pos, vel1) ==
  ClampSpeed(VAdd(vel1[index], computeVelocityChange(N, index, pos, vel1)))

(***************************************************************************)
(* Integration.                                                            *)
(***************************************************************************)
\* variant of WrapLow that leaves a coordinate below the scene as it is
WrapLow_NoWrap(c) == c

WrapLow(c) == IF c < -scene_scale THEN scene_scale ELSE c

\* variant of WrapHigh that keeps the overshoot on the opposite face
WrapHigh_KeepOvershoot(c) ==
  IF c > scene_scale THEN c - 2 * scene_scale ELSE c

WrapHigh(c) == IF c > scene_scale THEN -scene_scale ELSE c

Wrap(c) == WrapHigh(WrapLow(c))

\* the value kernUpdatePos stores in pos[index]
UpdatedPos(p, v, t) ==
  LET thisPos == VAdd(p, VMulF(v, t))
  IN <<Wrap(thisPos[1]), Wrap(thisPos[2]), Wrap(thisPos[3])>>

(***************************************************************************)
(* Uniform grid.  A multiplication by gridInverseCellWidth is modelled as  *)
(* the division by the cell width.                                         *)
(***************************************************************************)
gridIndex3Dto1D(x, y, z, gridResolution) ==
  x + y * gridResolution + z * gridResolution * gridResolution

\* glm::floor((pos - gridMin) * inverseCellWidth), one component
CellCoord(c, gridMin, cellWidth) == (c - gridMin) \div cellWidth

\* the value kernComputeIndices stores in gridIndices[index]
GridIndexOf(p, gridResolution, gridMin, cellWidth) ==
  gridIndex3Dto1D(CellCoord(p[1], gridMin[1], cellWidth),
                  CellCoord(p[2], gridMin[2], cellWidth),
                  CellCoord(p[3], gridMin[3], cellWidth), gridResolution)

\* variant of max_distance_val that doubles the largest rule distance
max_distance_val_Doubled ==
  2 * imax(rule1Distance, imax(rule2Distance, rule3Distance))

max_distance_val == imax(rule1Distance, imax(rule2Distance, rule3Distance))

\* (int) glm::clamp(q * inverseCellWidth, 0, gridResolution), one component
ClampCell(q, cellWidth, gridResolution) ==
  IF q <= 0 THEN 0
  ELSE IF q >= gridResolution * cellWidth THEN gridResolution
  ELSE q \div cellWidth

\* variant of grid_min_3D that starts the box at the boid's own cell
grid_min_3D_OwnCell(p, gridResolution, gridMin, cellWidth) ==
  [a \in 1 .. 3 |-> ClampCell(p[a] - gridMin[a], cellWidth, gridResolution)]

grid_min_3D(p, gridResolution, gridMin, cellWidth) ==
  [a \in 1 .. 3 |->
     ClampCell((p[a] - gridMin[a]) - max_distance_val, cellWidth, gridResolution)]

grid_max_3D(p, gridResolution, gridMin, cellWidth) ==
  [a \in 1 .. 3 |->
     ClampCell((p[a] - gridMin[a]) + max_distance_val, cellWidth, gridResolution)]

\* the cells visited by the z / y / x loops of a grid kernel, in loop order
CandidateCells(p, gridResolution, gridMin, cellWidth) ==
  LET lo == grid_min_3D(p, gridResolution, gridMin, cellWidth)
      hi == grid_max_3D(p, gridResolution, gridMin, cellWidth)
      nx == imax(hi[1] - lo[1] + 1, 0)
      ny == imax(hi[2] - lo[2] + 1, 0)
      nz == imax(hi[3] - lo[3] + 1, 0)
  IN [k \in 1 .. (nx * ny * nz) |->
        gridIndex3Dto1D(lo[1] + ((k - 1) % nx),
                        lo[2] + (((k - 1) \div nx) % ny),
                        lo[3] + ((k - 1) \div (nx * ny)), gridResolution)]

\* A cell table of `size` ints is kept as the entries some kernel has written
\* (set) and the value every other entry still has from the allocation (fill).
NewTable(size, fill) == [size |-> size, fill |-> fill, set |-> <<>>]

\* table[c]
CellAt(table, c) == IF c \in DOMAIN table.set THEN table.set[c] ELSE table.fill

\* the test after which a grid kernel skips a cell
RangeSkipped(N, start_boid_index, end_boid_index) ==
  \/ start_boid_index < 0
  \/ start_boid_index >= N
  \/ end_boid_index < 0
  \/ end_boid_index >= N

\* the sorted slots b of the loop over one cell
CellSlots(N, start_boid_index, end_boid_index) ==
  IF RangeSkipped(N, start_boid_index, end_boid_index) THEN <<>>
  ELSE [k \in 1 .. (end_boid_index - start_boid_index) |-> start_boid_index + k - 1]

\* variant of ScatteredCellBoids without the test on_boid == particle_index
ScatteredCellBoids_NoSelfTest(N, particle_index, slots, particleArrayIndices) ==
  [k \in 1 .. Len(slots) |-> particleArrayIndices[slots[k]]]

\* scattered kernel: the boids of one cell that pass the self test
ScatteredCellBoids(N, particle_index, slots, particleArrayIndices) ==
  SelectSeq([k \in 1 .. Len(slots) |-> particleArrayIndices[slots[k]]],
            LAMBDA on_boid : on_boid # particle_index)

\* coherent kernel: the boids of one cell that pass the self test
CoherentCellBoids(N, particle_index, slots) ==
  SelectSeq(slots, LAMBDA b : b # particle_index)

RECURSIVE ScatteredCandidates(_, _, _, _, _, _, _)
ScatteredCandidates(cells, k, N, particle_index, starts, ends, particleArrayIndices) ==
  IF k > Len(cells) THEN <<>>
  ELSE ScatteredCellBoids(N, particle_index,
                          CellSlots(N, CellAt(starts, cells[k]), CellAt(ends, cells[k])),
                          particleArrayIndices)
       \o ScatteredCandidates(cells, k + 1, N, particle_index, starts, ends,
                              particleArrayIndices)

RECURSIVE CoherentCandidates(_, _, _, _, _, _)
CoherentCandidates(cells, k, N, particle_index, starts, ends) ==
  IF k > Len(cells) THEN <<>>
  ELSE CoherentCellBoids(N, particle_index,
                         CellSlots(N, CellAt(starts, cells[k]), CellAt(ends, cells[k])))
       \o CoherentCandidates(cells, k + 1, N, particle_index, starts, ends)

\* the value a grid kernel stores in vel2[particle_index], given its candidates
GridVelocity(cands, particle_index, pos, vel1) ==
  ClampSpeed(VAdd(vel1[particle_index],
                  RuleChange(cands, pos[particle_index], pos, vel1)))

(***************************************************************************)
(* Cell boundaries: the writes of thread particle_index of                 *)
(* kernIdentifyCellStartEnd, as sets of <<cell, value>> pairs.             *)
(***************************************************************************)
StartWrites(N, keys, particle_index) ==
  IF particle_index = 0 THEN { <<keys[0], 0>> }
  ELSE IF keys[particle_index] # keys[particle_index - 1]
       THEN { <<keys[particle_index], particle_index>> }
       ELSE {}

\* variant of EndWrites in which every thread closes the range of its own cell
EndWrites_EveryThread(N, keys, particle_index) ==
  { <<keys[particle_index], particle_index + 1>> }

EndWrites(N, keys, particle_index) ==
  IF particle_index = 0 THEN {}
  ELSE (IF keys[particle_index] # keys[particle_index - 1]
        THEN { <<keys[particle_index - 1], particle_index>> }
        ELSE {})
       \cup
       (IF particle_index = N - 1
        THEN { <<keys[particle_index], particle_index + 1>> }
        ELSE {})

\* a table after a set of writes to distinct cells
Written(table, writes) ==
  [table EXCEPT !.set =
     [c \in (DOMAIN table.set) \cup { w[1] : w \in writes } |->
        IF \E w \in writes : w[1] = c
        THEN (CHOOSE w \in writes : w[1] = c)[2]
        ELSE table.set[c]]]

\* kernResetIntBuffer(N, intBuffer, value)
ResetInt(N, intBuffer, value) ==
  [intBuffer EXCEPT !.set =
     [c \in (DOMAIN intBuffer.set) \cup (Slots(N) \cap Slots(intBuffer.size)) |->
        IF c < N THEN value ELSE intBuffer.set[c]]]

\* thrust::sort_by_key: the keys and the values after the slots are put in
\* the order perm
SortedKeys(N, keys, perm) == [p \in Slots(N) |-> keys[perm[p]]]

\* variant of SortedValues in which only the keys are sorted (thrust::sort)
SortedValues_KeysOnly(N, values, perm) == values

SortedValues(N, values, perm) == [p \in Slots(N) |-> values[perm[p]]]

\* thrust::sort_by_key: the orders in which the slots may end up
SortOrders(N, keys) ==
  { perm \in [Slots(N) -> Slots(N)] :
      /\ \A a, b \in Slots(N) : a # b => perm[a] # perm[b]
      /\ \A a, b \in Slots(N) : a < b => keys[perm[a]] <= keys[perm[b]] }

(***************************************************************************)
(* Initial state: the globals of kernel.cu before any call.                *)
(***************************************************************************)
Init ==
  /\ pc = "none"
  /\ mode = "none"
  /\ dt = 0
  /\ steps = 0
  /\ numObjects = 0
  /\ dev_pos = <<>>
  /\ dev_vel1 = <<>>
  /\ dev_vel2 = <<>>
  /\ dev_particleArrayIndices = <<>>
  /\ dev_particleGridIndices = <<>>
  /\ dev_gridCellStartIndices = NewTable(0, 0)
  /\ dev_gridCellEndIndices = NewTable(0, 0)
  /\ dev_shuffledPos = <<>>
  /\ dev_shuffledVel1 = <<>>
  /\ gridCellCount = 0
  /\ gridSideCount = 0
  /\ gridCellWidth = 0
  /\ gridMinimum = Zero3
  /\ pos0 = <<>>
  /\ vel0 = <<>>
  /\ slot0 = <<>>
  /\ posPrev = <<>>
  /\ contrib = <<>>

(***************************************************************************)
(* Boids::initSimulation(N).  A launch with a grid of zero blocks is       *)
(* rejected by the runtime (invalid configuration); the checkCUDAError     *)
(* that follows the launch then exits the process.  P are the generated    *)
(* positions; V and g are what the allocations of dev_vel1 and of the two  *)
(* cell tables happen to contain (no code initialises them).               *)
(***************************************************************************)
initSimulation(N, P, V, g) ==
  /\ pc = "none"
  /\ numObjects' = N
  /\ IF BlocksFor(N) = 0
     THEN /\ pc' = "exited"
          /\ UNCHANGED <<mode, dt, steps, dev_pos, dev_vel1, dev_vel2, indexVars,
                         tableVars, shuffleVars, gridVars, histVars>>
     ELSE LET cellWidth == 2 * imax(imax(rule1Distance, rule2Distance), rule3Distance)
              halfSideCount == (scene_scale \div cellWidth) + 1
              sideCount == 2 * halfSideCount
              cellCount == sideCount * sideCount * sideCount
              halfGridWidth == cellWidth * halfSideCount
          IN /\ pc' = "idle"
             /\ dev_pos' = P
             /\ dev_vel1' = V
             /\ dev_vel2' = [i \in Slots(N) |-> Unwritten]
             /\ gridCellWidth' = cellWidth
             /\ gridSideCount' = sideCount
             /\ gridCellCount' = cellCount
             /\ gridMinimum' = <<gridMinimum[1] - halfGridWidth,
                                 gridMinimum[2] - halfGridWidth,
                                 gridMinimum[3] - halfGridWidth>>
             /\ dev_particleArrayIndices' = [i \in Slots(N) |-> Unwritten]
             /\ dev_particleGridIndices' = [i \in Slots(N) |-> Unwritten]
             /\ dev_gridCellStartIndices' = NewTable(cellCount, g[1])
             /\ dev_gridCellEndIndices' = NewTable(cellCount, g[2])
             /\ dev_shuffledPos' = [i \in Slots(N) |-> Unwritten]
             /\ dev_shuffledVel1' = [i \in Slots(N) |-> Unwritten]
             /\ pos0' = P
             /\ vel0' = V
             /\ slot0' = [i \in Slots(N) |-> i]
             /\ posPrev' = P
             /\ contrib' = [i \in Slots(N) |-> <<>>]
             /\ UNCHANGED <<mode, dt, steps>>

InitSimulationCall ==
  \E N \in 0 .. MaxN :
    \E P \in [Slots(N) -> PosSet], V \in [Slots(N) -> VelSet], g \in GarbageSet :
      initSimulation(N, P, V, g)

\* entry of a step function: the history variables take the state it starts from
StepEntry(m, t) ==
  /\ pc = "idle"
  /\ steps < MaxSteps
  /\ mode' = m
  /\ dt' = t
  /\ pos0' = dev_pos
  /\ vel0' = dev_vel1
  /\ slot0' = [i \in Slots(numObjects) |-> i]

(***************************************************************************)
(* Boids::stepSimulationNaive, first launch.                               *)
(***************************************************************************)
kernUpdateVelocityBruteForce ==
  \E t \in DtSet :
    /\ StepEntry("naive", t)
    /\ dev_vel2' = [index \in Slots(numObjects) |->
                      BruteForceVelocity(numObjects, index, dev_pos, dev_vel1)]
    /\ contrib' = [index \in Slots(numObjects) |->
                     BruteForceCandidates(numObjects, index)]
    /\ pc' = "vel"
    /\ UNCHANGED <<steps, numObjects, dev_pos, dev_vel1, indexVars, tableVars,
                   shuffleVars, gridVars, posPrev>>

(***************************************************************************)
(* Grid step functions, in launch order.                                   *)
(***************************************************************************)
kernComputeIndices ==
  \E m \in {"scattered", "coherent"}, t \in DtSet :
    /\ StepEntry(m, t)
    /\ dev_particleGridIndices' =
         [index \in Slots(numObjects) |->
            GridIndexOf(dev_pos[index], gridSideCount, gridMinimum, gridCellWidth)]
    /\ dev_particleArrayIndices' = [index \in Slots(numObjects) |-> index]
    /\ pc' = "indexed"
    /\ UNCHANGED <<steps, numObjects, dev_pos, dev_vel1, dev_vel2, tableVars,
                   shuffleVars, gridVars, posPrev, contrib>>

sort_by_key ==
  /\ pc = "indexed"
  /\ \E perm \in SortOrders(numObjects, dev_particleGridIndices) :
       /\ dev_particleGridIndices' =
            SortedKeys(numObjects, dev_particleGridIndices, perm)
       /\ dev_particleArrayIndices' =
            SortedValues(numObjects, dev_particleArrayIndices, perm)
  /\ pc' = "sorted"
  /\ UNCHANGED <<mode, dt, steps, numObjects, dev_pos, dev_vel1, dev_vel2,
                 tableVars, shuffleVars, gridVars, histVars>>

\* the two kernResetIntBuffer launches of a grid step
kernResetIntBuffer ==
  /\ pc = "sorted"
  /\ dev_gridCellStartIndices' = ResetInt(numObjects, dev_gridCellStartIndices, -1)
  /\ dev_gridCellEndIndices' = ResetInt(numObjects, dev_gridCellEndIndices, -1)
  /\ pc' = "reset"
  /\ UNCHANGED <<mode, dt, steps, numObjects, dev_pos, dev_vel1, dev_vel2,
                 indexVars, shuffleVars, gridVars, histVars>>

kernIdentifyCellStartEnd ==
  /\ pc = "reset"
  /\ dev_gridCellStartIndices' =
       Written(dev_gridCellStartIndices,
               UNION { StartWrites(numObjects, dev_particleGridIndices, p) :
                       p \in Slots(numObjects) })
  /\ dev_gridCellEndIndices' =
       Written(dev_gridCellEndIndices,
               UNION { EndWrites(numObjects, dev_particleGridIndices, p) :
                       p \in Slots(numObjects) })
  /\ pc' = "located"
  /\ UNCHANGED <<mode, dt, steps, numObjects, dev_pos, dev_vel1, dev_vel2,
                 indexVars, shuffleVars, gridVars, histVars>>

kernUpdateVelNeighborSearchScattered ==
  /\ pc = "located"
  /\ mode = "scattered"
  /\ LET cands == [particle_index \in Slots(numObjects) |->
                     ScatteredCandidates(
                       CandidateCells(dev_pos[particle_index], gridSideCount,
                                      gridMinimum, gridCellWidth),
                       1, numObjects, particle_index, dev_gridCellStartIndices,
                       dev_gridCellEndIndices, dev_particleArrayIndices)]
     IN /\ dev_vel2' = [particle_index \in Slots(numObjects) |->
                          GridVelocity(cands[particle_index], particle_index,
                                       dev_pos, dev_vel1)]
        /\ contrib' = cands
  /\ pc' = "vel"
  /\ UNCHANGED <<mode, dt, steps, numObjects, dev_pos, dev_vel1, indexVars,
                 tableVars, shuffleVars, gridVars, pos0, vel0, slot0, posPrev>>

\* variant of ShuffledBuffer that copies every slot to the same slot
ShuffledBuffer_SameSlot(N, particleArrayIndices, original_ordering) ==
  [particle_index \in Slots(N) |-> original_ordering[particle_index]]

\* the array shuffled_ordering after one launch of kernShuffleBuffer
ShuffledBuffer(N, particleArrayIndices, original_ordering) ==
  [particle_index \in Slots(N) |->
     original_ordering[particleArrayIndices[particle_index]]]

\* the two kernShuffleBuffer launches of the coherent step
kernShuffleBuffer ==
  /\ pc = "located"
  /\ mode = "coherent"
  /\ dev_shuffledPos' =
       ShuffledBuffer(numObjects, dev_particleArrayIndices, dev_pos)
  /\ dev_shuffledVel1' =
       ShuffledBuffer(numObjects, dev_particleArrayIndices, dev_vel1)
  /\ pc' = "shuffled"
  /\ UNCHANGED <<mode, dt, steps, numObjects, dev_pos, dev_vel1, dev_vel2,
                 indexVars, tableVars, gridVars, histVars>>

\* the two cudaMemcpy calls that put the shuffled data back
CopyBack ==
  /\ pc = "shuffled"
  /\ dev_pos' = dev_shuffledPos
  /\ dev_vel1' = dev_shuffledVel1
  /\ slot0' = [p \in Slots(numObjects) |-> slot0[dev_particleArrayIndices[p]]]
  /\ pc' = "copied"
  /\ UNCHANGED <<mode, dt, steps, numObjects, dev_vel2, indexVars, tableVars,
                 shuffleVars, gridVars, pos0, vel0, posPrev, contrib>>

kernUpdateVelNeighborSearchCoherent ==
  /\ pc = "copied"
  /\ LET cands == [particle_index \in Slots(numObjects) |->
                     CoherentCandidates(
                       CandidateCells(dev_pos[particle_index], gridSideCount,
                                      gridMinimum, gridCellWidth),
                       1, numObjects, particle_index, dev_gridCellStartIndices,
                       dev_gridCellEndIndices)]
     IN /\ dev_vel2' = [particle_index \in Slots(numObjects) |->
                          GridVelocity(cands[particle_index], particle_index,
                                       dev_pos, dev_vel1)]
        /\ contrib' = cands
  /\ pc' = "vel"
  /\ UNCHANGED <<mode, dt, steps, numObjects, dev_pos, dev_vel1, indexVars,
                 tableVars, shuffleVars, gridVars, pos0, vel0, slot0, posPrev>>

(***************************************************************************)
(* The end of every step function: kernUpdatePos(numObjects, dt, dev_pos,  *)
(* dev_vel1), then the copy of dev_vel2 into dev_vel1.                     *)
(***************************************************************************)
kernUpdatePos ==
  /\ pc = "vel"
  /\ dev_pos' = [index \in Slots(numObjects) |->
                   UpdatedPos(dev_pos[index], dev_vel1[index], dt)]
  /\ posPrev' = dev_pos
  /\ pc' = "moved"
  /\ UNCHANGED <<mode, dt, steps, numObjects, dev_vel1, dev_vel2, indexVars,
                 tableVars, shuffleVars, gridVars, pos0, vel0, slot0, contrib>>

PingPong ==
  /\ pc = "moved"
  /\ dev_vel1' = dev_vel2
  /\ steps' = steps + 1
  /\ pc' = "idle"
  /\ UNCHANGED <<mode, dt, numObjects, dev_pos, dev_vel2, indexVars, tableVars,
                 shuffleVars, gridVars, histVars>>

Next ==
  \/ InitSimulationCall
  \/ kernUpdateVelocityBruteForce
  \/ kernComputeIndices
  \/ sort_by_key
  \/ kernResetIntBuffer
  \/ kernIdentifyCellStartEnd
  \/ kernUpdateVelNeighborSearchScattered
  \/ kernShuffleBuffer
  \/ CopyBack
  \/ kernUpdateVelNeighborSearchCoherent
  \/ kernUpdatePos
  \/ PingPong

Spec == Init /\ [][Next]_vars

(***************************************************************************)
(* Lifecycle: Boids::endSimulation frees the buffers; the globals          *)
(* numObjects, gridCellWidth, gridSideCount, gridCellCount and gridMinimum *)
(* keep their values, and initSimulation may be called again.  The number  *)
(* of initSimulation calls made so far is read off gridMinimum, which      *)
(* every call lowers by halfGridWidth.                                     *)
(***************************************************************************)
InitCalls == (-gridMinimum[1]) \div (gridCellWidth * (gridSideCount \div 2))

endSimulation ==
  /\ pc = "idle"
  /\ InitCalls < MaxInits
  /\ pc' = "none"
  /\ mode' = "none"
  /\ dt' = 0
  /\ dev_pos' = <<>>
  /\ dev_vel1' = <<>>
  /\ dev_vel2' = <<>>
  /\ dev_particleArrayIndices' = <<>>
  /\ dev_particleGridIndices' = <<>>
  /\ dev_gridCellStartIndices' = NewTable(0, 0)
  /\ dev_gridCellEndIndices' = NewTable(0, 0)
  /\ dev_shuffledPos' = <<>>
  /\ dev_shuffledVel1' = <<>>
  /\ pos0' = <<>>
  /\ vel0' = <<>>
  /\ slot0' = <<>>
  /\ posPrev' = <<>>
  /\ contrib' = <<>>
  /\ UNCHANGED <<steps, numObjects, gridVars>>

\* kernIdentifyCellStartEnd stores through a grid index that lies outside the
\* cell tables: the launch may also fail with an illegal address, which the
\* checkCUDAError after it turns into an exit
IllegalAddress ==
  /\ pc = "reset"
  /\ \E p \in Slots(numObjects) :
       dev_particleGridIndices[p] \notin Slots(gridCellCount)
  /\ pc' = "exited"
  /\ UNCHANGED <<mode, dt, steps, numObjects, dev_pos, dev_vel1, dev_vel2,
                 indexVars, tableVars, shuffleVars, gridVars, histVars>>

NextLifecycle ==
  \/ Next
  \/ endSimulation
  \/ IllegalAddress

SpecLifecycle == Init /\ [][NextLifecycle]_vars

(***************************************************************************)
(* Properties.                                                             *)
(***************************************************************************)
GridMode == mode \in {"scattered", "coherent"}

\* the boid a grid kernel resolves sorted slot b to
Resolved(b) == IF mode = "scattered" THEN dev_particleArrayIndices[b] ELSE b

\* the cells thread i of the running grid kernel looks up
CellsOf(i) ==
  Range(CandidateCells(dev_pos[i], gridSideCount, gridMinimum, gridCellWidth))

\* the sorted slots thread i walks in cell c
SlotsIn(c) ==
  Range(CellSlots(numObjects, CellAt(dev_gridCellStartIndices, c),
                  CellAt(dev_gridCellEndIndices, c)))

Near(a, b) == \A k \in 1 .. 3 : Abs(a[k] - b[k]) <= 1

\* C1: after one grid step every boid has the velocity and the position that
\* stepSimulationNaive computes from the same starting arrays and dt (slot p
\* of the result is compared with the boid that started the step in slot
\* slot0[p]; tolerance one hundredth), also after earlier steps.
C1_GridStepMatchesNaive ==
  (pc = "idle" /\ steps > 0 /\ GridMode) =>
    \A p \in Slots(numObjects) :
      /\ Near(dev_vel1[p], BruteForceVelocity(numObjects, slot0[p], pos0, vel0))
      /\ Near(dev_pos[p], UpdatedPos(pos0[slot0[p]], vel0[slot0[p]], dt))

\* C2: in every variant the evaluating boid is never among the boids that
\* reach the rule 1, rule 2 and rule 3 sums and counts of its own thread.
C2_SelfExcluded ==
  \A i \in DOMAIN contrib : i \notin Range(contrib[i])

\* a scattered kernel thread met its own boid in a searched cell range
C2_Witness ==
  /\ pc = "vel"
  /\ mode = "scattered"
  /\ \E i \in Slots(numObjects) :
       \E c \in CellsOf(i) : \E b \in SlotsIn(c) : dev_particleArrayIndices[b] = i

\* C3: after kernIdentifyCellStartEnd, for every N > 0, the cell of every
\* sorted slot p has cellStart and cellEnd set (not -1) with start <= end,
\* p lies in [start, end), and every slot of that range has the same cell
\* (so the ranges of the occupied cells cover [0, N) without gap or overlap).
C3_RangesPartition ==
  (pc = "located" /\ numObjects > 0) =>
    \A p \in Slots(numObjects) :
      LET c == dev_particleGridIndices[p]
          start == CellAt(dev_gridCellStartIndices, c)
          end == CellAt(dev_gridCellEndIndices, c)
      IN /\ start # -1
         /\ end # -1
         /\ start <= end
         /\ start <= p
         /\ p < end
         /\ \A q \in Slots(numObjects) :
              (start <= q /\ q < end) => dev_particleGridIndices[q] = c

\* C4: after the sort the keys are non-decreasing, dev_particleArrayIndices
\* holds every value 0 .. N-1 exactly once, and the key of slot p is the grid
\* cell index of boid dev_particleArrayIndices[p].
C4_SortedPaired ==
  (pc = "sorted") =>
    /\ \A a, b \in Slots(numObjects) :
         a < b => dev_particleGridIndices[a] <= dev_particleGridIndices[b]
    /\ \A v \in Slots(numObjects) :
         Cardinality({ p \in Slots(numObjects) : dev_particleArrayIndices[p] = v }) = 1
    /\ \A p \in Slots(numObjects) :
         /\ dev_particleArrayIndices[p] \in Slots(numObjects)
         /\ dev_particleGridIndices[p] =
              GridIndexOf(dev_pos[dev_particleArrayIndices[p]], gridSideCount,
                          gridMinimum, gridCellWidth)

\* the sort moved a boid to another slot
C4_Witness ==
  /\ pc = "sorted"
  /\ \E p \in Slots(numObjects) : dev_particleArrayIndices[p] # p
  /\ \E a, b \in Slots(numObjects) :
       dev_particleGridIndices[a] # dev_particleGridIndices[b]

\* the sum a velocity kernel clamps: own velocity plus the three rules
Unclamped(i) ==
  VAdd(dev_vel1[i], RuleChange(contrib[i], dev_pos[i], dev_pos, dev_vel1))

SameDirection(s, u) ==
  /\ \A k \in 1 .. 3 : s[k] * u[k] >= 0
  /\ Abs(s[1] * u[2] - s[2] * u[1]) <= Abs(u[1]) + Abs(u[2])
  /\ Abs(s[1] * u[3] - s[3] * u[1]) <= Abs(u[1]) + Abs(u[3])
  /\ Abs(s[2] * u[3] - s[3] * u[2]) <= Abs(u[2]) + Abs(u[3])

\* length(v) <= s and length(v) >= s, each to the rounding of the components
\* of v (two hundredths)
AtMostSpeed(v, s) == ~LongerThan(v, s + 2)

AtLeastSpeed(v, s) == LongerThan(v, s - 2)

\* C5: in every variant the stored velocity_next is no longer than maxSpeed;
\* when the unclamped sum is longer than maxSpeed the stored value has length
\* maxSpeed and the direction of the sum, otherwise it is the sum unchanged;
\* after a step every current velocity is no longer than maxSpeed.  Lengths
\* and directions of rescaled vectors are compared to the rounding of their
\* components.
C5_SpeedClamped ==
  /\ (pc = "vel") =>
       \A i \in Slots(numObjects) :
         IF LongerThan(Unclamped(i), maxSpeed)
         THEN /\ AtMostSpeed(dev_vel2[i], maxSpeed)
              /\ AtLeastSpeed(dev_vel2[i], maxSpeed)
              /\ SameDirection(dev_vel2[i], Unclamped(i))
         ELSE dev_vel2[i] = Unclamped(i)
  /\ (pc = "idle" /\ steps > 0) =>
       \A i \in Slots(numObjects) : AtMostSpeed(dev_vel1[i], maxSpeed)

\* a grid kernel clamped a sum longer than maxSpeed
C5_Witness ==
  /\ pc = "vel"
  /\ mode = "coherent"
  /\ \E i \in Slots(numObjects) :
       /\ LongerThan(Unclamped(i), maxSpeed)
       /\ contrib[i] # <<>>

\* component a of boid i after the integration of kernUpdatePos, before the wrap
Integrated(i, a) == posPrev[i][a] + FMul(dev_vel1[i][a], dt)

\* C6: a position component that is scene_scale + e after the integration
\* (e > 0) is stored as -scene_scale + e, and one that is -scene_scale - e is
\* stored as scene_scale - e.
C6_OvershootKept ==
  (pc = "moved") =>
    \A i \in Slots(numObjects) : \A a \in 1 .. 3 :
      /\ Integrated(i, a) > scene_scale =>
           dev_pos[i][a] = -scene_scale + (Integrated(i, a) - scene_scale)
      /\ Integrated(i, a) < -scene_scale =>
           dev_pos[i][a] = scene_scale - (-scene_scale - Integrated(i, a))

\* C6 as amended: a position component that is above scene_scale after the
\* integration is stored as exactly -scene_scale, and one that is below
\* -scene_scale is stored as exactly scene_scale (the overshoot is dropped).
C6_WrapToFace ==
  (pc = "moved") =>
    \A i \in Slots(numObjects) : \A a \in 1 .. 3 :
      /\ Integrated(i, a) > scene_scale => dev_pos[i][a] = -scene_scale
      /\ Integrated(i, a) < -scene_scale => dev_pos[i][a] = scene_scale

\* one boid crossed the upper face on one axis and the lower face on another
C6_Witness ==
  /\ pc = "moved"
  /\ \E i \in Slots(numObjects) :
       /\ \E a \in 1 .. 3 : Integrated(i, a) > scene_scale
       /\ \E a \in 1 .. 3 : Integrated(i, a) < -scene_scale

\* no other boid is closer to boid i than the largest rule radius
Isolated(i) ==
  \A j \in Slots(numObjects) :
    j # i => ~CloserThan(dev_pos[i], dev_pos[j], max_distance_val)

\* C7: for a boid with no other boid inside any rule radius the three rule
\* contributions sum to the zero vector in every variant and velocity_next is
\* velocity_current, rescaled to maxSpeed only when velocity_current is longer
\* than maxSpeed, whatever the cell tables hold.
C7_IsolatedUnchanged ==
  (pc = "vel") =>
    \A i \in Slots(numObjects) :
      Isolated(i) =>
        /\ RuleChange(contrib[i], dev_pos[i], dev_pos, dev_vel1) = Zero3
        /\ IF LongerThan(dev_vel1[i], maxSpeed)
           THEN /\ AtMostSpeed(dev_vel2[i], maxSpeed)
                /\ AtLeastSpeed(dev_vel2[i], maxSpeed)
                /\ SameDirection(dev_vel2[i], dev_vel1[i])
           ELSE dev_vel2[i] = dev_vel1[i]

\* a grid kernel walked another boid for an isolated boid (through a range
\* the cell table still held) and the distance tests rejected it
C7_Witness ==
  /\ pc = "vel"
  /\ GridMode
  /\ \E i \in Slots(numObjects) :
       /\ Isolated(i)
       /\ contrib[i] # <<>>
       /\ ~LongerThan(dev_vel1[i], maxSpeed)

\* C8: with N = 0 initSimulation and the step functions complete without
\* the exit of checkCUDAError, and after kernIdentifyCellStartEnd every
\* cellStart and cellEnd entry is -1.
C8_EmptyRunCompletes ==
  (pc # "none" /\ numObjects = 0) =>
    /\ pc # "exited"
    /\ (pc = "located") =>
         \A c \in Slots(gridCellCount) :
           /\ CellAt(dev_gridCellStartIndices, c) = -1
           /\ CellAt(dev_gridCellEndIndices, c) = -1

\* C9: kernUpdatePos advances every position by the velocity the same step
\* stored in velocity_next, times dt, and after the step velocity_current is
\* that velocity_next.
C9_IntegratesNextVelocity ==
  /\ (pc = "moved") =>
       \A i \in Slots(numObjects) :
         dev_pos[i] = UpdatedPos(posPrev[i], dev_vel2[i], dt)
  /\ (pc = "idle" /\ steps > 0) => dev_vel1 = dev_vel2

\* the range test of the design: start and end inside [0, N]
RangeValid(N, start, end) ==
  start >= 0 /\ start <= N /\ end >= 0 /\ end <= N

\* C10: in the scattered and coherent kernels a candidate cell is searched
\* exactly when its range is valid (start and end in [0, N]): every boid of
\* a valid range other than the evaluating one reaches the rules, the cell
\* that ends at N included, and no boid of an invalid range does.
C10_ValidRangeSearched ==
  (pc = "vel" /\ GridMode) =>
    \A i \in Slots(numObjects) :
      LET valid(c) == RangeValid(numObjects, CellAt(dev_gridCellStartIndices, c),
                                 CellAt(dev_gridCellEndIndices, c))
          inRange(c) == { b \in Slots(numObjects) :
                            /\ CellAt(dev_gridCellStartIndices, c) <= b
                            /\ b < CellAt(dev_gridCellEndIndices, c) }
      IN /\ \A c \in CellsOf(i) : valid(c) =>
              \A b \in inRange(c) :
                Resolved(b) # i => Resolved(b) \in Range(contrib[i])
         /\ \A j \in Range(contrib[i]) :
              \E c \in CellsOf(i) : valid(c) /\ \E b \in inRange(c) : Resolved(b) = j

\* the cells that hold a boid in the running step
OccupiedCells == Range(dev_particleGridIndices)

\* C11: in every grid step all gridCellCount entries of both tables are -1
\* after the reset, so after kernIdentifyCellStartEnd of any step every cell
\* that holds no boid in this step has cellStart = cellEnd = -1.
C11_TablesFullyReset ==
  /\ (pc = "reset") =>
       \A c \in Slots(gridCellCount) :
         /\ CellAt(dev_gridCellStartIndices, c) = -1
         /\ CellAt(dev_gridCellEndIndices, c) = -1
  /\ (pc = "located") =>
       \A c \in Slots(gridCellCount) \ OccupiedCells :
         /\ CellAt(dev_gridCellStartIndices, c) = -1
         /\ CellAt(dev_gridCellEndIndices, c) = -1

\* a simulation is set up (initSimulation has returned)
Allocated == pc \notin {"none", "exited"}

InScene(p) == \A a \in 1 .. 3 : -scene_scale <= p[a] /\ p[a] <= scene_scale

\* C12: from the seeded positions on, after any steps of any variant, every
\* position component lies in [-scene_scale, scene_scale], the cell
\* coordinate kernComputeIndices computes for it lies in [0, gridSideCount-1]
\* on each axis and the stored grid index lies in [0, gridCellCount).
C12_PositionsAndCellsInRange ==
  Allocated =>
    /\ \A i \in Slots(numObjects) :
         /\ InScene(dev_pos[i])
         /\ \A a \in 1 .. 3 :
              CellCoord(dev_pos[i][a], gridMinimum[a], gridCellWidth)
                \in 0 .. (gridSideCount - 1)
         /\ GridIndexOf(dev_pos[i], gridSideCount, gridMinimum, gridCellWidth)
              \in Slots(gridCellCount)
    /\ (GridMode /\ pc # "idle") =>
         \A p \in Slots(numObjects) :
           dev_particleGridIndices[p] \in Slots(gridCellCount)

\* kernComputeIndices has run on a boid that an earlier step wrapped from the
\* +x face to the -x face, and on one that it wrapped from -y to +y
C12_Witness ==
  /\ pc = "indexed"
  /\ steps >= 1
  /\ \E i \in Slots(numObjects) : dev_pos[i][1] = -scene_scale
  /\ \E i \in Slots(numObjects) : dev_pos[i][2] = scene_scale

\* the cell kernComputeIndices gives the boid of slot i
CellOfBoid(i) ==
  GridIndexOf(dev_pos[i], gridSideCount, gridMinimum, gridCellWidth)

\* a grid kernel is about to run on dev_pos, or has just run on it
AtGridKernel ==
  \/ mode = "scattered" /\ pc \in {"located", "vel"}
  \/ mode = "coherent" /\ pc \in {"copied", "vel"}

\* C13: for two distinct boids s and t inside the scene that are closer than
\* the largest rule distance, the cell of t is one of the cells the z / y / x
\* loops of the grid kernels visit for s, and no boid has more than 27 such
\* cells (stated for the positions a grid kernel runs on).
C13_NeighbourCellsCovered ==
  AtGridKernel =>
    \A s \in Slots(numObjects) :
      LET cells == CandidateCells(dev_pos[s], gridSideCount, gridMinimum,
                                  gridCellWidth)
      IN /\ Len(cells) <= 27
         /\ \A t \in Slots(numObjects) :
              ( /\ s # t
                /\ InScene(dev_pos[s])
                /\ InScene(dev_pos[t])
                /\ CloserThan(dev_pos[s], dev_pos[t], max_distance_val) )
              => CellOfBoid(t) \in Range(cells)

\* a grid kernel has run for two boids closer than the largest rule distance
\* that lie in different cells
C13_Witness ==
  /\ pc = "vel"
  /\ GridMode
  /\ \E s, t \in Slots(numObjects) :
       /\ s # t
       /\ CloserThan(dev_pos[s], dev_pos[t], max_distance_val)
       /\ CellOfBoid(s) # CellOfBoid(t)
       /\ CellOfBoid(t) \in CellsOf(s)

\* C16: for every boid inside the scene, each cell a grid kernel looks up has
\* its three coordinates in [0, gridSideCount-1] (the loop bounds lo and hi
\* satisfy 0 <= lo <= hi <= gridSideCount-1, although the clamp admits
\* gridSideCount) and a flattened index in [0, gridCellCount), so both cell
\* tables are read inside their allocation (stated for the positions a grid
\* kernel runs on).
C16_CandidateCellsInTable ==
  AtGridKernel =>
    \A i \in Slots(numObjects) :
      InScene(dev_pos[i]) =>
        LET lo == grid_min_3D(dev_pos[i], gridSideCount, gridMinimum, gridCellWidth)
            hi == grid_max_3D(dev_pos[i], gridSideCount, gridMinimum, gridCellWidth)
        IN /\ \A a \in 1 .. 3 :
                0 <= lo[a] /\ lo[a] <= hi[a] /\ hi[a] <= gridSideCount - 1
           /\ \A c \in CellsOf(i) : c \in Slots(gridCellCount)

\* a grid kernel has run for a boid on the +x face of the scene, whose box
\* reaches the last cell of the axis
C16_Witness ==
  /\ pc = "vel"
  /\ GridMode
  /\ \E i \in Slots(numObjects) :
       /\ dev_pos[i][1] = scene_scale
       /\ grid_max_3D(dev_pos[i], gridSideCount, gridMinimum,
                      gridCellWidth)[1] = gridSideCount - 1

\* C17: in a coherent step, after the shuffle and the copy back (and while
\* the coherent kernel runs on the result), slot p of dev_pos and dev_vel1
\* holds the position and the velocity that boid dev_particleArrayIndices[p]
\* had before the shuffle, dev_particleArrayIndices is a permutation of the
\* slots (no boid lost or duplicated), and the boid of slot p lies in the
\* cell dev_particleGridIndices[p]; this holds in every step of a run.
C17_ShufflePermutes ==
  (mode = "coherent" /\ pc \in {"copied", "vel"}) =>
    /\ \A p \in Slots(numObjects) :
         /\ dev_particleArrayIndices[p] \in Slots(numObjects)
         /\ dev_pos[p] = pos0[dev_particleArrayIndices[p]]
         /\ dev_vel1[p] = vel0[dev_particleArrayIndices[p]]
         /\ CellOfBoid(p) = dev_particleGridIndices[p]
    /\ \A p, q \in Slots(numObjects) :
         dev_particleArrayIndices[p] = dev_particleArrayIndices[q] => p = q

\* in a step after the first, the copy back has put two boids with different
\* positions and different velocities into exchanged slots
C17_Witness ==
  /\ mode = "coherent"
  /\ pc = "copied"
  /\ steps >= 1
  /\ numObjects = 2
  /\ dev_particleArrayIndices[0] = 1
  /\ dev_particleArrayIndices[1] = 0
  /\ pos0[0] # pos0[1]
  /\ vel0[0] # vel0[1]
  /\ dev_pos[0] = pos0[1]

(***************************************************************************)
(* The slots thread i of each kernel reads and writes, as sets of          *)
(* <<array, index>> pairs, in the state the launch starts from.            *)
(***************************************************************************)
Cells(array, S) == { <<array, k>> : k \in S }

ComputeIndicesReads(i) == { <<"pos", i>> }

ComputeIndicesWrites(i) == { <<"gridIndices", i>>, <<"indices", i>> }

ResetIntBufferReads(i) == {}

ResetIntBufferWrites(i) == { <<"intBuffer", i>> }

IdentifyCellStartEndReads(i) ==
  Cells("particleGridIndices", IF i = 0 THEN {0} ELSE {i, i - 1})

IdentifyCellStartEndWrites(i) ==
  Cells("gridCellStartIndices",
        { w[1] : w \in StartWrites(numObjects, dev_particleGridIndices, i) })
  \cup Cells("gridCellEndIndices",
             { w[1] : w \in EndWrites(numObjects, dev_particleGridIndices, i) })

ShuffleBufferReads(i) ==
  { <<"particleArrayIndices", i>>,
    <<"original_ordering", dev_particleArrayIndices[i]>> }

ShuffleBufferWrites(i) == { <<"shuffled_ordering", i>> }

BruteForceReads(i) ==
  Cells("pos", Slots(numObjects)) \cup Cells("vel1", Slots(numObjects))

\* the sorted slots thread i walks in the cells it does not skip
WalkedSlots(i) == UNION { SlotsIn(c) : c \in CellsOf(i) }

ScatteredReads(i) ==
  LET boids == { dev_particleArrayIndices[b] : b \in WalkedSlots(i) } \cup {i}
  IN Cells("gridCellStartIndices", CellsOf(i))
     \cup Cells("gridCellEndIndices", CellsOf(i))
     \cup Cells("particleArrayIndices", WalkedSlots(i))
     \cup Cells("pos", boids) \cup Cells("vel1", boids)

CoherentReads(i) ==
  LET boids == WalkedSlots(i) \cup {i}
  IN Cells("gridCellStartIndices", CellsOf(i))
     \cup Cells("gridCellEndIndices", CellsOf(i))
     \cup Cells("pos", boids) \cup Cells("vel1", boids)

VelocityWrites(i) == { <<"vel2", i>> }

UpdatePosReads(i) == { <<"pos", i>>, <<"vel", i>> }

UpdatePosWrites(i) == { <<"pos", i>> }

\* no two threads write one slot, and no thread reads a slot another writes
NoRace(Reads, Writes) ==
  \A i, j \in DOMAIN Writes :
    i # j => /\ Writes[i] \cap Writes[j] = {}
             /\ Reads[i] \cap Writes[j] = {}

\* C15: in the state each launch of a step starts from, the threads of the
\* launched kernel (index assignment, table reset, boundary detection,
\* shuffle, velocity evaluation of each variant, integration) write pairwise
\* different slots and none reads a slot another one writes, so the result
\* of the launch is the same under every interleaving; the velocity kernels
\* read vel1 and write vel2.
C15_StagesRaceFree ==
  LET PerThread(Access(_)) == [i \in Slots(numObjects) |-> Access(i)]
      Free(Reads(_), Writes(_)) == NoRace(PerThread(Reads), PerThread(Writes))
  IN /\ (pc = "idle") =>
          /\ Free(ComputeIndicesReads, ComputeIndicesWrites)
          /\ Free(BruteForceReads, VelocityWrites)
     /\ (pc = "sorted") => Free(ResetIntBufferReads, ResetIntBufferWrites)
     /\ (pc = "reset") =>
          Free(IdentifyCellStartEndReads, IdentifyCellStartEndWrites)
     /\ (pc = "located" /\ mode = "coherent") =>
          Free(ShuffleBufferReads, ShuffleBufferWrites)
     /\ (pc = "located" /\ mode = "scattered") =>
          Free(ScatteredReads, VelocityWrites)
     /\ (pc = "copied") => Free(CoherentReads, VelocityWrites)
     /\ (pc = "vel") => Free(UpdatePosReads, UpdatePosWrites)

\* boundary detection has run on two boids of different cells, where thread
\* 0 writes the start of its cell and thread 1 writes the start of its cell
\* and the end of both cells
C15_Witness ==
  /\ pc = "located"
  /\ numObjects = 2
  /\ dev_particleGridIndices[0] # dev_particleGridIndices[1]
  /\ Cardinality(IdentifyCellStartEndWrites(0)) = 1
  /\ Cardinality(IdentifyCellStartEndWrites(1)) = 3

\* C14: whenever a simulation is set up, after any calls of initSimulation,
\* the step functions and endSimulation (a second initSimulation after
\* endSimulation included), gridCellWidth is twice the largest rule distance,
\* gridSideCount is 2 * (floor(scene_scale / gridCellWidth) + 1),
\* gridCellCount is gridSideCount cubed and gridMinimum is
\* -gridCellWidth * halfSideCount on each axis.
C14_GridParameters ==
  Allocated =>
    LET cellWidth == 2 * max_distance_val
        halfSideCount == (scene_scale \div cellWidth) + 1
    IN /\ gridCellWidth = cellWidth
       /\ gridSideCount = 2 * halfSideCount
       /\ gridCellCount = gridSideCount * gridSideCount * gridSideCount
       /\ \A a \in 1 .. 3 : gridMinimum[a] = -(cellWidth * halfSideCount)

====
